---- MODULE Spec2Model ----
(***************************************************************************)
(* A model of the PDF-to-quiz backend: text cleaning and segmentation      *)
(* (pdf_extractor.py), quiz composition with its rule-based fallback and   *)
(* short-answer evaluation (question_generator.py), the request handlers   *)
(* (app.py) and the quiz history kept in a JSON file (database.py).        *)
(*                                                                         *)
(* Texts are TLA+ strings in the state; the operators work on them as      *)
(* sequences of one-character strings (Chars / Str convert).  Python's     *)
(* None is the empty sequence <<>> and a present value x is <<x>>.         *)
(***************************************************************************)
EXTENDS Integers, Sequences, FiniteSets, TLC

VARIABLES
    pc,            \* "start" before the call, "done" after it
    raw_text,      \* clean_and_segment_text: its argument
    seg_out,       \* clean_and_segment_text: the list of segments it returns
    text,          \* generate_quiz: the full text
    segments,      \* generate_quiz: the segments of the text
    preferences,   \* generate_quiz: the preferences dictionary
    quiz,          \* generate_quiz: the quiz object it returns
    calls,         \* the calls of generate_mcqs / generate_saqs made, in order
    user_answer,   \* evaluate_saq_answer: the answer submitted
    keywords,      \* evaluate_saq_answer: the list of keywords
    eval_response, \* evaluate_saq_answer: what the backend answered
    evaluation,    \* evaluate_saq_answer: the dictionary it returns
    raised,        \* the exception that left the call, "" when it returned
    storage_file,  \* QuizHistory: the contents of quiz_history.json
    served,        \* the requests the application has answered, in order
    procs          \* concurrent requests: where each is in save_quiz, and its locals

vars == <<pc, raw_text, seg_out, text, segments, preferences, quiz, calls,
          user_answer, keywords, eval_response, evaluation, raised,
          storage_file, served, procs>>

(***************************************************************************)
(* Bounds of the model.                                                    *)
(***************************************************************************)
MaxTextLen == 5      \* raw texts enumerated over SegAlphabet have at most this many characters
MaxLines == 2        \* raw texts built from LinePool have at most this many lines
MaxPageLines == 4    \* raw texts built from PageLinePool have at most this many lines
MaxSentences == 2    \* quiz texts have at most this many sentences of SentencePool
MaxSegments == 2     \* quiz inputs hold at most this many segments
MaxN == 2            \* num_questions ranges over 0..MaxN (and the spec's example, 7)
MaxBackendQuestions == 1   \* the backend answers with at most this many questions
MaxKeywords == 3     \* keyword lists hold at most this many keywords of KeywordPool
MaxRequests == 2     \* the application answers at most this many requests, one after the other
MaxProcs == 2        \* this many quiz-generation requests run concurrently

(***************************************************************************)
(* Characters and strings.                                                 *)
(***************************************************************************)
None == <<>>
Some(x) == <<x>>

Chars(str) == [i \in 1..Len(str) |-> SubSeq(str, i, i)]

\* The string of a sequence of characters (by halves, to keep the recursion shallow).
RECURSIVE Str(_)
Str(cs) ==
    IF Len(cs) = 0 THEN ""
    ELSE IF Len(cs) = 1 THEN cs[1]
         ELSE LET h == Len(cs) \div 2
              IN  Str(SubSeq(cs, 1, h)) \o Str(SubSeq(cs, h + 1, Len(cs)))

Max(S) == CHOOSE x \in S : \A y \in S : y <= x
Min(S) == CHOOSE x \in S : \A y \in S : x <= y

Space == {" ", "\n", "\t"}
Digit == {"0", "1", "2", "3", "4", "5", "6", "7", "8", "9"}
Upper == {"A", "B", "C", "D", "E", "F", "G", "H", "I", "J", "K", "L", "M",
          "N", "O", "P", "Q", "R", "S", "T", "U", "V", "W", "X", "Y", "Z"}
Lower == {"a", "b", "c", "d", "e", "f", "g", "h", "i", "j", "k", "l", "m",
          "n", "o", "p", "q", "r", "s", "t", "u", "v", "w", "x", "y", "z"}
Letter == Upper \cup Lower
RuleChar == {"-", "_", "="}

\* The first position j >= i of cs that holds no character of class C
\* (Len(cs) + 1 when the run reaches the end): the end of a greedy C* at i.
SpanEnd(cs, i, C) ==
    CHOOSE j \in i..(Len(cs) + 1) :
        /\ j = Len(cs) + 1 \/ cs[j] \notin C
        /\ \A k \in i..(j - 1) : cs[k] \in C

\* str.strip()
strip(cs) ==
    LET first == SpanEnd(cs, 1, Space)
        last == CHOOSE j \in 0..Len(cs) :
                    /\ j = 0 \/ cs[j] \notin Space
                    /\ \A k \in (j + 1)..Len(cs) : cs[k] \in Space
    IN  IF first > Len(cs) THEN <<>> ELSE SubSeq(cs, first, last)

\* str.split('\n'): the pieces between newlines, empty pieces included.
RECURSIVE split_lines(_)
split_lines(cs) ==
    LET nl == {i \in 1..Len(cs) : cs[i] = "\n"}
    IN  IF nl = {} THEN <<cs>>
        ELSE LET p == CHOOSE i \in nl : \A j \in nl : i <= j
             IN  <<SubSeq(cs, 1, p - 1)>> \o split_lines(SubSeq(cs, p + 1, Len(cs)))

\* The first position j >= i of cs that holds a character of class C
\* (Len(cs) + 1 when there is none).
FindFirst(cs, i, C) ==
    CHOOSE j \in i..(Len(cs) + 1) :
        /\ j = Len(cs) + 1 \/ cs[j] \in C
        /\ \A k \in i..(j - 1) : cs[k] \notin C

\* str.split(): the maximal runs of non-whitespace characters.
RECURSIVE split_words(_)
split_words(cs) ==
    LET t == strip(cs)
    IN  IF t = <<>> THEN <<>>
        ELSE LET f == FindFirst(t, 1, Space)
             IN  <<SubSeq(t, 1, f - 1)>> \o split_words(SubSeq(t, f, Len(t)))

\* str.lower() of one character.
lower(c) ==
    IF c \in Upper
    THEN LET U == Chars("ABCDEFGHIJKLMNOPQRSTUVWXYZ")
             L == Chars("abcdefghijklmnopqrstuvwxyz")
         IN  L[CHOOSE i \in 1..26 : U[i] = c]
    ELSE c

\* The characters of prefix, case-insensitively, stand at position i of cs.
StartsWithIgnoreCase(cs, i, prefix) ==
    /\ i + Len(prefix) - 1 <= Len(cs)
    /\ \A k \in 1..Len(prefix) : lower(cs[i + k - 1]) = lower(prefix[k])

(***************************************************************************)
(* clean_text: five regular-expression substitutions and a strip.  Each    *)
(* Match operator gives the last position of the leftmost match starting   *)
(* at i (0 when the pattern does not match there); each Sub operator is    *)
(* re.sub from position i on: it copies the text up to the leftmost match, *)
(* puts the replacement and resumes after the match.                       *)
(***************************************************************************)
\* \n\s*\d+\s*\n : a newline, a line holding only a number, its newline.
MatchPageNumber(cs, i) ==
    IF cs[i] # "\n" THEN 0
    ELSE LET j == SpanEnd(cs, i + 1, Space)
             k == SpanEnd(cs, j, Digit)
             m == SpanEnd(cs, k, Space)
             nl == {p \in k..(m - 1) : cs[p] = "\n"}
         IN  IF k > j /\ nl # {} THEN Max(nl) ELSE 0

RECURSIVE SubPageNumber(_, _)
SubPageNumber(cs, i) ==
    LET hits == {p \in i..Len(cs) : MatchPageNumber(cs, p) > 0}
    IN  IF hits = {} THEN SubSeq(cs, i, Len(cs))
        ELSE LET p == Min(hits)
             IN  SubSeq(cs, i, p - 1) \o <<"\n">> \o SubPageNumber(cs, MatchPageNumber(cs, p) + 1)

\* Page\s+\d+ (IGNORECASE)
MatchPageLabel(cs, i) ==
    IF ~StartsWithIgnoreCase(cs, i, Chars("Page")) THEN 0
    ELSE LET j == SpanEnd(cs, i + 4, Space)
             k == SpanEnd(cs, j, Digit)
         IN  IF j > i + 4 /\ k > j THEN k - 1 ELSE 0

RECURSIVE SubPageLabel(_, _)
SubPageLabel(cs, i) ==
    LET hits == {p \in i..Len(cs) : MatchPageLabel(cs, p) > 0}
    IN  IF hits = {} THEN SubSeq(cs, i, Len(cs))
        ELSE LET p == Min(hits)
             IN  SubSeq(cs, i, p - 1) \o SubPageLabel(cs, MatchPageLabel(cs, p) + 1)

\* \n\s*\n\s*\n+ : a run of whitespace holding three newlines or more.
MatchBlankLines(cs, i) ==
    IF cs[i] # "\n" THEN 0
    ELSE LET m == SpanEnd(cs, i, Space)
             nl == {p \in i..(m - 1) : cs[p] = "\n"}
         IN  IF Cardinality(nl) >= 3 THEN Max(nl) ELSE 0

RECURSIVE SubBlankLines(_, _)
SubBlankLines(cs, i) ==
    LET hits == {p \in i..Len(cs) : MatchBlankLines(cs, p) > 0}
    IN  IF hits = {} THEN SubSeq(cs, i, Len(cs))
        ELSE LET p == Min(hits)
             IN  SubSeq(cs, i, p - 1) \o <<"\n", "\n">> \o SubBlankLines(cs, MatchBlankLines(cs, p) + 1)

\* ' +' : a run of spaces.
MatchSpaces(cs, i) ==
    IF cs[i] = " " THEN SpanEnd(cs, i, {" "}) - 1 ELSE 0

RECURSIVE SubSpaces(_, _)
SubSpaces(cs, i) ==
    LET hits == {p \in i..Len(cs) : MatchSpaces(cs, p) > 0}
    IN  IF hits = {} THEN SubSeq(cs, i, Len(cs))
        ELSE LET p == Min(hits)
             IN  SubSeq(cs, i, p - 1) \o <<" ">> \o SubSpaces(cs, MatchSpaces(cs, p) + 1)

\* \n[-_=]{3,}\n : a line of three rule characters or more.
MatchRule(cs, i) ==
    IF cs[i] # "\n" THEN 0
    ELSE LET k == SpanEnd(cs, i + 1, RuleChar)
         IN  IF k - (i + 1) >= 3 /\ k <= Len(cs) /\ cs[k] = "\n" THEN k ELSE 0

RECURSIVE SubRule(_, _)
SubRule(cs, i) ==
    LET hits == {p \in i..Len(cs) : MatchRule(cs, p) > 0}
    IN  IF hits = {} THEN SubSeq(cs, i, Len(cs))
        ELSE LET p == Min(hits)
             IN  SubSeq(cs, i, p - 1) \o <<"\n">> \o SubRule(cs, MatchRule(cs, p) + 1)

clean_text(cs) ==
    LET t1 == SubPageNumber(cs, 1)
        t2 == SubPageLabel(t1, 1)
        t3 == SubBlankLines(t2, 1)
        t4 == SubSpaces(t3, 1)
        t5 == SubRule(t4, 1)
    IN  strip(t5)

(***************************************************************************)
(* detect_heading                                                          *)
(***************************************************************************)
HeadingMaxLen == 80

\* ^[0-9]+\.
NumberedHeading(l) ==
    LET k == SpanEnd(l, 1, Digit) IN k > 1 /\ k <= Len(l) /\ l[k] = "."

\* ^[0-9]+\.[0-9]+
SubNumberedHeading(l) ==
    LET k == SpanEnd(l, 1, Digit)
    IN  k > 1 /\ k + 1 <= Len(l) /\ l[k] = "." /\ l[k + 1] \in Digit

\* ^[A-Z][A-Z\s]+$ under IGNORECASE: letters of either case.
AllCapsHeading(l) ==
    /\ Len(l) >= 2
    /\ l[1] \in Letter
    /\ \A k \in 2..Len(l) : l[k] \in Letter \cup Space

\* ^Chapter\s+\d+ and ^Section\s+\d+ (IGNORECASE)
KeywordHeading(l, word) ==
    /\ StartsWithIgnoreCase(l, 1, word)
    /\ LET j == SpanEnd(l, Len(word) + 1, Space)
       IN  j > Len(word) + 1 /\ j <= Len(l) /\ l[j] \in Digit

\* ^[IVX]+\. (IGNORECASE)
RomanHeading(l) ==
    LET k == SpanEnd(l, 1, {"I", "V", "X", "i", "v", "x"})
    IN  k > 1 /\ k <= Len(l) /\ l[k] = "."

\* The title-case fallback: a short line that starts with a capital, does
\* not end in '.', ',' or ';', and has more than half its words capitalised.
TitleCaseHeading(l) ==
    /\ Len(l) < HeadingMaxLen
    /\ l[1] \in Upper
    /\ l[Len(l)] \notin {".", ",", ";"}
    /\ LET words == split_words(l)
           capitalized == Cardinality({k \in 1..Len(words) : words[k][1] \in Upper})
       IN  2 * capitalized > Len(words)

detect_heading(line) ==
    LET l == strip(line)
    IN  /\ l # <<>>
        /\ \/ NumberedHeading(l)
           \/ SubNumberedHeading(l)
           \/ AllCapsHeading(l)
           \/ KeywordHeading(l, Chars("Chapter"))
           \/ KeywordHeading(l, Chars("Section"))
           \/ RomanHeading(l)
           \/ TitleCaseHeading(l)

(***************************************************************************)
(* clean_and_segment_text                                                  *)
(***************************************************************************)
\* '\n'.join(lines)
RECURSIVE join_lines(_)
join_lines(lines) ==
    IF lines = <<>> THEN <<>>
    ELSE IF Len(lines) = 1 THEN lines[1]
         ELSE lines[1] \o <<"\n">> \o join_lines(Tail(lines))

\* The end of the match of ^([0-9]+(?:\.[0-9]+)*) whose digits so far end
\* before position k.
RECURSIVE DottedEnd(_, _)
DottedEnd(l, k) ==
    IF k + 1 <= Len(l) /\ l[k] = "." /\ l[k + 1] \in Digit
    THEN DottedEnd(l, SpanEnd(l, k + 1, Digit))
    ELSE k

\* A faulty variant: the numeral is searched anywhere in the line (re.search).
section_number_searched(l) ==
    LET p == FindFirst(l, 1, Digit)
    IN  IF p <= Len(l)
        THEN Some(Str(SubSeq(l, p, DottedEnd(l, SpanEnd(l, p, Digit)) - 1)))
        ELSE None

\* section_match.group(1) if section_match else None
section_number(l) ==
    LET k == SpanEnd(l, 1, Digit)
    IN  IF k > 1 THEN Some(Str(SubSeq(l, 1, DottedEnd(l, k) - 1))) ELSE None

\* current_segment as the loop holds it: content is still a list of lines.
EmptySegment == [heading |-> None, content |-> <<>>, section_number |-> None]

\* current_segment['content'] = '\n'.join(...); segments.append(current_segment)
Finalized(cur) ==
    [heading |-> cur.heading,
     content |-> Str(join_lines(cur.content)),
     section_number |-> cur.section_number]

\* if current_segment['content']: append it
Flushed(segs, cur) ==
    IF cur.content # <<>> THEN Append(segs, Finalized(cur)) ELSE segs

\* The loop over the lines of the cleaned text, from line i on.
RECURSIVE SegmentLoop(_, _, _, _)
SegmentLoop(lines, i, segs, cur) ==
    IF i > Len(lines) THEN Flushed(segs, cur)
    ELSE LET line == strip(lines[i])
         IN  IF line = <<>> THEN SegmentLoop(lines, i + 1, segs, cur)
             ELSE IF detect_heading(line)
                  THEN SegmentLoop(lines, i + 1, Flushed(segs, cur),
                                   [heading |-> Some(Str(line)),
                                    content |-> <<>>,
                                    section_number |-> section_number(line)])
                  ELSE SegmentLoop(lines, i + 1, segs,
                                   [cur EXCEPT !.content = Append(@, line)])

\* if not segments: one big "Main Content" segment
MainContentFallback(segs, cleaned) ==
    IF segs = <<>>
    THEN <<[heading |-> Some("Main Content"),
            content |-> Str(cleaned),
            section_number |-> None]>>
    ELSE segs

clean_and_segment_text(raw) ==
    LET cleaned == clean_text(Chars(raw))
        segs == SegmentLoop(split_lines(cleaned), 1, <<>>, EmptySegment)
    IN  MainContentFallback(segs, cleaned)

(***************************************************************************)
(* The inputs of the segmenter: every text over SegAlphabet of at most     *)
(* MaxTextLen characters, every text of at most MaxLines lines drawn from   *)
(* LinePool, and every text of at most MaxPageLines lines drawn from       *)
(* PageLinePool (pages of notes with their page numbers).                  *)
(***************************************************************************)
SegAlphabet == {"\n", " ", "A", "a", "1", "."}

LinePool ==
    {"1. Introduction", "1.2 Overview of cells", "CHAPTER OVERVIEW", "Chapter 3",
     "the cat sat on the mat.", "Cells divide by mitosis, a process of growth.",
     "42", "Page 7", "-----", "", "  indented text; with a pause.",
     "The Structure Of A Cell"}

RECURSIVE StringsUpTo(_)
StringsUpTo(n) ==
    IF n = 0 THEN {""}
    ELSE LET shorter == StringsUpTo(n - 1)
         IN  shorter \cup {t \o c : t \in shorter, c \in SegAlphabet}

RECURSIVE LinesUpTo(_)
LinesUpTo(n) ==
    IF n = 1 THEN LinePool
    ELSE LET fewer == LinesUpTo(n - 1)
         IN  fewer \cup {t \o "\n" \o l : t \in fewer, l \in LinePool}

PageLinePool == {"Cells divide.", "12", "Page 3", ""}

RECURSIVE PageLinesUpTo(_)
PageLinesUpTo(n) ==
    IF n = 1 THEN PageLinePool
    ELSE LET fewer == PageLinesUpTo(n - 1)
         IN  fewer \cup {t \o "\n" \o l : t \in fewer, l \in PageLinePool}

RawTexts == StringsUpTo(MaxTextLen) \cup LinesUpTo(MaxLines) \cup PageLinesUpTo(MaxPageLines)

(***************************************************************************)
(* SpecSeg: one call of clean_and_segment_text on any of the raw texts.    *)
(***************************************************************************)
IdleSeg == raw_text = "" /\ seg_out = <<>>

IdleQuiz ==
    /\ text = ""
    /\ segments = <<>>
    /\ preferences = <<>>
    /\ quiz = <<>>
    /\ calls = <<>>

IdleEval ==
    /\ user_answer = ""
    /\ keywords = <<>>
    /\ eval_response = <<>>
    /\ evaluation = <<>>

IdleApi ==
    /\ storage_file = <<>>
    /\ served = <<>>
    /\ procs = <<>>

InitSeg ==
    /\ pc = "start"
    /\ raw_text \in RawTexts
    /\ seg_out = <<>>
    /\ raised = ""
    /\ IdleQuiz
    /\ IdleEval
    /\ IdleApi

Segment ==
    /\ pc = "start"
    /\ seg_out' = clean_and_segment_text(raw_text)
    /\ pc' = "done"
    /\ UNCHANGED <<raw_text, text, segments, preferences, quiz, calls, raised,
                   user_answer, keywords, eval_response, evaluation,
                   storage_file, served, procs>>

NextSeg == Segment

SpecSeg == InitSeg /\ [][NextSeg]_vars

(***************************************************************************)
(* The generative backend.  One call of client.chat.completions.create     *)
(* followed by json.loads ends in one of these ways: the call raises       *)
(* (timeout, network), the content does not parse as JSON, or it parses to *)
(* a JSON object (response_format is json_object) that has no 'questions'  *)
(* key, or whose 'questions' is null, or is an array of questions.         *)
(***************************************************************************)
JsonNull == [tag |-> "null", items |-> <<>>]
JsonArray(items) == [tag |-> "array", items |-> items]

BackendMcq ==
    [type |-> "mcq", question |-> "What do cells do?",
     options |-> <<"Grow", "Divide", "Sleep", "Melt">>, correct_answer |-> 1,
     explanation |-> "Cells divide", hint |-> "Think", section_reference |-> Some("1"),
     difficulty |-> "medium"]

BackendSaq ==
    [type |-> "saq", question |-> "Why do cells divide?",
     model_answer |-> "To grow", keywords |-> <<"grow">>, marking_points |-> <<"Growth">>,
     hint |-> "Think", section_reference |-> Some("1"), difficulty |-> "medium",
     max_marks |-> 5]

BackendResponses(sample) ==
    {[kind |-> "error", questions |-> None],
     [kind |-> "invalid_json", questions |-> None],
     [kind |-> "object", questions |-> None],
     [kind |-> "object", questions |-> Some(JsonNull)]}
    \cup {[kind |-> "object", questions |-> Some(JsonArray([i \in 1..k |-> sample]))] :
            k \in 0..MaxBackendQuestions}

\* The call is never made.
NoResponse == [kind |-> "none", questions |-> None]

\* The try block raises: the except branch runs.
BackendFailed(resp) == resp.kind \in {"error", "invalid_json"}

(***************************************************************************)
(* generate_fallback_mcqs                                                  *)
(***************************************************************************)
MinSentenceLen == 40
MaxSentenceLen == 200
MinWords == 5

Terminator == {".", "!", "?"}

\* re.split(r'[.!?]+', text)
RECURSIVE split_sentences(_)
split_sentences(cs) ==
    LET p == FindFirst(cs, 1, Terminator)
    IN  IF p > Len(cs) THEN <<cs>>
        ELSE <<SubSeq(cs, 1, p - 1)>>
             \o split_sentences(SubSeq(cs, SpanEnd(cs, p, Terminator), Len(cs)))

\* len(s.strip()) > 40 and len(s.strip()) < 200, of a stripped sentence
Important(stripped) ==
    Len(stripped) > MinSentenceLen /\ Len(stripped) < MaxSentenceLen

\* [s.strip() for s in sentences if ...]
RECURSIVE important_sentences(_)
important_sentences(sentences) ==
    IF sentences = <<>> THEN <<>>
    ELSE LET stripped == strip(Head(sentences))
         IN  (IF Important(stripped) THEN <<stripped>> ELSE <<>>)
             \o important_sentences(Tail(sentences))

\* seq[:n] for n >= 0
Take(seq, n) == SubSeq(seq, 1, IF n < Len(seq) THEN n ELSE Len(seq))

\* ' '.join(words)
RECURSIVE join_words(_)
join_words(words) ==
    IF words = <<>> THEN <<>>
    ELSE IF Len(words) = 1 THEN words[1]
         ELSE words[1] \o <<" ">> \o join_words(Tail(words))

\* if len(words) > 5
EnoughWords(words) == Len(words) > MinWords

\* The options of a cloze question: the removed word first.
ClozeOptions(answer) == <<answer, "Option B", "Option C", "Option D">>

\* The cloze question made of one sentence (blank_position is 0-based in the code).
ClozeQuestion(words, segs) ==
    LET blank_position == Len(words) \div 2
        answer == Str(words[blank_position + 1])
        question_words == SubSeq(words, 1, blank_position) \o <<Chars("______")>>
                          \o SubSeq(words, blank_position + 2, Len(words))
    IN  [type |-> "mcq",
         question |-> Str(join_words(question_words)),
         options |-> ClozeOptions(answer),
         correct_answer |-> 0,
         explanation |-> "The correct word is \"" \o answer \o "\"",
         hint |-> "Think about the context",
         section_reference |-> IF segs # <<>> THEN segs[1].heading ELSE Some("Main Content"),
         difficulty |-> "medium"]

RECURSIVE ClozeQuestions(_, _)
ClozeQuestions(sentences, segs) ==
    IF sentences = <<>> THEN <<>>
    ELSE LET words == split_words(Head(sentences))
         IN  (IF EnoughWords(words) THEN <<ClozeQuestion(words, segs)>> ELSE <<>>)
             \o ClozeQuestions(Tail(sentences), segs)

\* A faulty variant: the slice [:num_questions] is dropped.
CandidatesUnsliced(cs, num_questions) ==
    important_sentences(split_sentences(cs))

\* important_sentences[:num_questions]
Candidates(cs, num_questions) ==
    Take(important_sentences(split_sentences(cs)), num_questions)

generate_fallback_mcqs(txt, num_questions, segs) ==
    ClozeQuestions(Candidates(Chars(txt), num_questions), segs)

(***************************************************************************)
(* generate_fallback_saqs                                                  *)
(***************************************************************************)
ModelAnswerLen == 300

\* str(x) of an optional string inside an f-string
Fmt(opt) == IF opt = None THEN "None" ELSE opt[1]

SegmentQuestion(segment) ==
    [type |-> "saq",
     question |-> "Explain the key concepts covered in: " \o Fmt(segment.heading),
     model_answer |-> SubSeq(segment.content, 1,
                             IF Len(segment.content) < ModelAnswerLen
                             THEN Len(segment.content) ELSE ModelAnswerLen),
     keywords |-> <<"concept", "definition", "example">>,
     marking_points |-> <<"Explanation", "Understanding", "Application">>,
     hint |-> "Consider the main ideas discussed",
     section_reference |-> segment.heading,
     difficulty |-> "medium",
     max_marks |-> 5]

generate_fallback_saqs(txt, num_questions, segs) ==
    [i \in 1..Len(Take(segs, num_questions)) |-> SegmentQuestion(segs[i])]

(***************************************************************************)
(* generate_mcqs, generate_saqs: the value returned for a backend          *)
(* response.  result.get('questions', []) hands back whatever the object   *)
(* holds under 'questions', and [] when the key is missing.                *)
(***************************************************************************)
GetQuestions(resp) ==
    IF resp.questions = None THEN JsonArray(<<>>) ELSE resp.questions[1]

generate_mcqs(txt, segs, num_questions, resp) ==
    IF BackendFailed(resp)
    THEN JsonArray(generate_fallback_mcqs(txt, num_questions, segs))
    ELSE GetQuestions(resp)

generate_saqs(txt, segs, num_questions, resp) ==
    IF BackendFailed(resp)
    THEN JsonArray(generate_fallback_saqs(txt, num_questions, segs))
    ELSE GetQuestions(resp)

(***************************************************************************)
(* generate_quiz                                                           *)
(***************************************************************************)
DefaultNumQuestions == 10

\* A faulty variant: the value under the key is ignored.
GetDefaultOnly(opt, default) == default

\* preferences.get(key, default): an absent key is None here.
Get(opt, default) == IF opt = None THEN default ELSE opt[1]

question_type_of(prefs) == Get(prefs.question_type, "mixed")
num_questions_of(prefs) == Get(prefs.num_questions, DefaultNumQuestions)

\* A faulty variant: the mixed split rounds the MCQ share up.
num_mcq_rounded_up(prefs) ==
    LET n == num_questions_of(prefs)
    IN  IF question_type_of(prefs) = "mcq" THEN n
        ELSE IF question_type_of(prefs) = "saq" THEN 0
             ELSE (n + 1) \div 2

num_mcq(prefs) ==
    LET n == num_questions_of(prefs)
    IN  IF question_type_of(prefs) = "mcq" THEN n
        ELSE IF question_type_of(prefs) = "saq" THEN 0
             ELSE n \div 2

num_saq(prefs) ==
    LET n == num_questions_of(prefs)
    IN  IF question_type_of(prefs) = "mcq" THEN 0
        ELSE IF question_type_of(prefs) = "saq" THEN n
             ELSE n - num_mcq(prefs)

\* The record of one call of generate_mcqs or generate_saqs.
Call(fn, num_questions, resp) ==
    [fn |-> fn, num_questions |-> num_questions, response |-> resp,
     fallback |-> BackendFailed(resp)]

\* questions.extend(x) raises TypeError when x is None.
ExtendRaises(value) == value.tag # "array"

\* The whole of generate_quiz for the given backend responses: the quiz
\* returned, the calls made and the exception that left it ("" when none).
generate_quiz(txt, segs, prefs, mcq_resp, saq_resp) ==
    LET nm == num_mcq(prefs)
        ns == num_saq(prefs)
        mcqs == generate_mcqs(txt, segs, nm, mcq_resp)
        saqs == generate_saqs(txt, segs, ns, saq_resp)
        mcq_call == IF nm > 0 THEN <<Call("generate_mcqs", nm, mcq_resp)>> ELSE <<>>
        saq_call == IF ns > 0 THEN <<Call("generate_saqs", ns, saq_resp)>> ELSE <<>>
        q1 == IF nm > 0 THEN mcqs.items ELSE <<>>
        q2 == IF ns > 0 THEN q1 \o saqs.items ELSE q1
    IN  IF nm > 0 /\ ExtendRaises(mcqs)
        THEN [raised |-> "TypeError", calls |-> mcq_call, quiz |-> <<>>]
        ELSE IF ns > 0 /\ ExtendRaises(saqs)
             THEN [raised |-> "TypeError", calls |-> mcq_call \o saq_call, quiz |-> <<>>]
             ELSE [raised |-> "",
                   calls |-> mcq_call \o saq_call,
                   quiz |-> [questions |-> q2,
                             total_questions |-> Len(q2),
                             preferences |-> prefs,
                             text |-> txt,
                             segments |-> segs]]

(***************************************************************************)
(* The inputs of generate_quiz: texts of at most MaxSentences sentences of *)
(* SentencePool, the first segments (at most MaxSegments) of a sample      *)
(* document, and the preferences: every question type with every count,    *)
(* and the empty dictionary.                                               *)
(***************************************************************************)
Sentence57 == "Photosynthesis converts light energy into chemical energy"
Sentence41 == "Mitochondria make energy for a given cell"
Sentence12 == "Cells divide"
Sentence50 == "Photosynthesis produces carbohydrates continuously"
Sentence40 == "Ribosomes build proteins in living cells"
Sentence200 ==
    Sentence57 \o " " \o Sentence57 \o " " \o Sentence57 \o " and " \o Sentence12 \o " yet again"

SentencePool == {Sentence57, Sentence50, Sentence12, Sentence200}

RECURSIVE SentencesUpTo(_)
SentencesUpTo(n) ==
    IF n = 0 THEN {""}
    ELSE LET fewer == SentencesUpTo(n - 1)
         IN  fewer \cup {(IF t = "" THEN "" ELSE t \o " ") \o sentence \o "." :
                           t \in fewer, sentence \in SentencePool}

QuizTexts == SentencesUpTo(MaxSentences) \cup {Sentence41 \o "! " \o Sentence40 \o "?"}

SampleDocument ==
    "Cells are the unit of life.\n1. Cells\nCells divide by mitosis.\n2.1 Energy\nLight is energy.\n3 Summary\nthat is all."

SampleSegments == clean_and_segment_text(SampleDocument)

QuizSegments == {Take(SampleSegments, k) : k \in 0..MaxSegments}

QuestionTypes == {"mcq", "saq", "mixed"}
NumQuestions == (0..MaxN) \cup {7}

Preferences ==
    {[question_type |-> Some(t), num_questions |-> Some(n)] :
        t \in QuestionTypes, n \in NumQuestions}
    \cup {[question_type |-> None, num_questions |-> None]}

(***************************************************************************)
(* SpecQuiz: one call of generate_quiz, the backend answering each of its  *)
(* requests in any of the ways it can.                                     *)
(***************************************************************************)
InitQuiz ==
    /\ pc = "start"
    /\ text \in QuizTexts
    /\ segments \in QuizSegments
    /\ preferences \in Preferences
    /\ quiz = <<>>
    /\ calls = <<>>
    /\ raised = ""
    /\ IdleSeg
    /\ IdleEval
    /\ IdleApi

GenerateQuiz ==
    /\ pc = "start"
    /\ \E mcq_resp \in (IF num_mcq(preferences) > 0
                        THEN BackendResponses(BackendMcq) ELSE {NoResponse}),
          saq_resp \in (IF num_saq(preferences) > 0
                        THEN BackendResponses(BackendSaq) ELSE {NoResponse}) :
          LET r == generate_quiz(text, segments, preferences, mcq_resp, saq_resp)
          IN  /\ quiz' = r.quiz
              /\ calls' = r.calls
              /\ raised' = r.raised
    /\ pc' = "done"
    /\ UNCHANGED <<raw_text, seg_out, text, segments, preferences,
                   user_answer, keywords, eval_response, evaluation,
                   storage_file, served, procs>>

NextQuiz == GenerateQuiz

SpecQuiz == InitQuiz /\ [][NextQuiz]_vars

(***************************************************************************)
(* evaluate_saq_answer.  model_answer only goes into the prompt, and the   *)
(* prompt does not decide the result: the backend's answer is an input.    *)
(* The score (a float in the code) is kept as the fraction <<found, total>>*)
(* it is computed from; int(score * 100) and int(score * 10) are the       *)
(* truncations of the exact products, which is what the float arithmetic   *)
(* gives for every list of fewer than 50 keywords.                         *)
(***************************************************************************)
\* str.lower()
LowerStr(str) == Str([i \in 1..Len(str) |-> lower(SubSeq(str, i, i))])

\* needle in hay
Contains(hay, needle) ==
    \/ needle = ""
    \/ \E i \in 1..(Len(hay) - Len(needle) + 1) :
           SubSeq(hay, i, i + Len(needle) - 1) = needle

\* keyword.lower() in user_answer_lower
KeywordPresent(answer, keyword) == Contains(LowerStr(answer), LowerStr(keyword))

RECURSIVE keywords_found(_, _)
keywords_found(answer, kws) ==
    IF kws = <<>> THEN <<>>
    ELSE (IF KeywordPresent(answer, Head(kws)) THEN <<Head(kws)>> ELSE <<>>)
         \o keywords_found(answer, Tail(kws))

RECURSIVE keywords_missing(_, _)
keywords_missing(answer, kws) ==
    IF kws = <<>> THEN <<>>
    ELSE (IF KeywordPresent(answer, Head(kws)) THEN <<>> ELSE <<Head(kws)>>)
         \o keywords_missing(answer, Tail(kws))

\* A faulty variant: the division is not guarded.
ScoreGuardDropped(total_keywords) == TRUE

\* ... if total_keywords > 0 else 0
ScoreGuard(total_keywords) == total_keywords > 0

\* A division by zero raises ZeroDivisionError.
DivisionRaises(found, total_keywords) == ScoreGuard(total_keywords) /\ total_keywords = 0

\* score = len(keywords_found) / total_keywords if total_keywords > 0 else 0
score_of(found, total_keywords) ==
    IF ScoreGuard(total_keywords) THEN <<found, total_keywords>> ELSE <<0, 1>>

\* int(score * 100)
score_percentage(score) == (100 * score[1]) \div score[2]

\* int(score * 10)
score_out_of_10(score) == (10 * score[1]) \div score[2]

\* score > 0.6
demonstrates_understanding(score) == 5 * score[1] > 3 * score[2]

\* ', '.join(words)
RECURSIVE join_comma(_)
join_comma(words) ==
    IF words = <<>> THEN ""
    ELSE IF Len(words) = 1 THEN words[1]
         ELSE words[1] \o ", " \o join_comma(Tail(words))

\* The dictionary synthesized in the except branch.
FallbackEvaluation(score, found, missing) ==
    [score_out_of_10 |-> Some(score_out_of_10(score)),
     feedback |-> Some("Basic keyword matching performed."),
     strengths |-> Some(IF found # <<>> THEN <<"Included: " \o join_comma(found)>> ELSE <<>>),
     improvements |-> Some(IF missing # <<>> THEN <<"Missing: " \o join_comma(missing)>> ELSE <<>>),
     demonstrates_understanding |-> Some(demonstrates_understanding(score))]

\* The backend's answers: a failure, or a JSON object, each key of which may
\* be missing (None).
FullEvaluation ==
    [score_out_of_10 |-> Some(8),
     feedback |-> Some("Good understanding shown..."),
     strengths |-> Some(<<"Point 1">>),
     improvements |-> Some(<<"Missing X">>),
     demonstrates_understanding |-> Some(TRUE)]

EmptyEvaluation ==
    [score_out_of_10 |-> None, feedback |-> None, strengths |-> None,
     improvements |-> None, demonstrates_understanding |-> None]

EvalResponses ==
    {[kind |-> "error", object |-> EmptyEvaluation],
     [kind |-> "invalid_json", object |-> EmptyEvaluation],
     [kind |-> "object", object |-> FullEvaluation],
     [kind |-> "object", object |-> EmptyEvaluation]}

\* The whole of evaluate_saq_answer: the dictionary returned and the
\* exception that left it ("" when none).
evaluate_saq_answer(answer, kws, resp) ==
    LET found == keywords_found(answer, kws)
        missing == keywords_missing(answer, kws)
        total_keywords == Len(kws)
        score == score_of(Len(found), total_keywords)
        ai_evaluation == IF BackendFailed(resp)
                         THEN FallbackEvaluation(score, found, missing)
                         ELSE resp.object
    IN  IF DivisionRaises(Len(found), total_keywords)
        THEN [raised |-> "ZeroDivisionError", evaluation |-> <<>>]
        ELSE [raised |-> "",
              evaluation |->
                  [keywords_found |-> found,
                   keywords_missing |-> missing,
                   keyword_score_percentage |-> score_percentage(score),
                   ai_evaluation |-> ai_evaluation,
                   overall_score |-> Get(ai_evaluation.score_out_of_10, 0),
                   feedback |-> Get(ai_evaluation.feedback, ""),
                   demonstrates_understanding |->
                       Get(ai_evaluation.demonstrates_understanding, FALSE)]]

(***************************************************************************)
(* SpecEval: one call of evaluate_saq_answer on an answer of AnswerPool    *)
(* and a list of at most MaxKeywords keywords of KeywordPool.              *)
(***************************************************************************)
KeywordPool == {"cell", "Energy", "mitosis"}
AnswerPool == {"", "Cells use ENERGY to divide", "Mitosis"}

RECURSIVE KeywordLists(_)
KeywordLists(n) ==
    IF n = 0 THEN {<<>>}
    ELSE LET fewer == KeywordLists(n - 1)
         IN  fewer \cup {Append(l, k) : l \in fewer, k \in KeywordPool}

InitEval ==
    /\ pc = "start"
    /\ user_answer \in AnswerPool
    /\ keywords \in KeywordLists(MaxKeywords)
    /\ eval_response = <<>>
    /\ evaluation = <<>>
    /\ raised = ""
    /\ IdleSeg
    /\ IdleQuiz
    /\ IdleApi

EvaluateAnswer ==
    /\ pc = "start"
    /\ \E resp \in EvalResponses :
          LET r == evaluate_saq_answer(user_answer, keywords, resp)
          IN  /\ eval_response' = resp
              /\ evaluation' = r.evaluation
              /\ raised' = r.raised
    /\ pc' = "done"
    /\ UNCHANGED <<raw_text, seg_out, text, segments, preferences, quiz, calls,
                   user_answer, keywords, storage_file, served, procs>>

NextEval == EvaluateAnswer

SpecEval == InitEval /\ [][NextEval]_vars

(***************************************************************************)
(* QuizHistory (database.py): the store is the file quiz_history.json,     *)
(* read whole by _load_data and rewritten whole by _save_data.  The file   *)
(* either parses to {'quizzes': [...]} or does not parse: it has just been *)
(* opened for writing and is empty, or it holds the bytes of two writers.  *)
(* A record's timestamp (the wall clock) is left out: no operation         *)
(* modelled here reads it.                                                 *)
(***************************************************************************)
EmptiedFile == [parses |-> FALSE, quizzes |-> <<>>, empty |-> TRUE]
GarbledFile == [parses |-> FALSE, quizzes |-> <<>>, empty |-> FALSE]
WrittenFile(quizzes) == [parses |-> TRUE, quizzes |-> quizzes, empty |-> FALSE]

\* _load_data: data['quizzes'], and [] when reading or parsing raises
load_data(file) == IF file.parses THEN file.quizzes ELSE <<>>

\* quiz_record of save_quiz
QuizRecord(quiz_id, quiz_data, prefs) ==
    [id |-> quiz_id, quiz_data |-> quiz_data, preferences |-> prefs, results |-> None]

\* save_quiz when nothing else touches the file: the file it leaves.
save_quiz(file, quiz_id, quiz_data, prefs) ==
    WrittenFile(Append(load_data(file), QuizRecord(quiz_id, quiz_data, prefs)))

\* get_by_id: the first record with the id, or None
get_by_id(file, quiz_id) ==
    LET quizzes == load_data(file)
        hits == {i \in 1..Len(quizzes) : quizzes[i].id = quiz_id}
    IN  IF hits = {} THEN None ELSE Some(quizzes[Min(hits)])

\* get_all
get_all(file) == load_data(file)

\* str(uuid.uuid4()): an identifier no earlier call has produced.
IdNames == <<"id-a", "id-b", "id-c", "id-d", "id-e">>
QuizIds(n) == {IdNames[k] : k \in 1..n}
StoredIds(file) == {load_data(file)[i].id : i \in 1..Len(load_data(file))}

(***************************************************************************)
(* The request boundary (app.py).  Each handler is an operator that gives  *)
(* the response and the calls of clean_and_segment_text / generate_quiz    *)
(* the handler made.                                                       *)
(***************************************************************************)
ExcerptLen == 500

\* return jsonify({'error': message}), status
Error(status, message) ==
    [response |-> [status |-> status, body |-> [error |-> message]], calls |-> <<>>]

\* dict.get(key, default) of a stored record
DictGet(dict, key, default) == IF key \in DOMAIN dict THEN dict[key] ELSE default

\* filename.endswith(suffix)
EndsWith(str, suffix) ==
    Len(str) >= Len(suffix) /\ SubSeq(str, Len(str) - Len(suffix) + 1, Len(str)) = suffix

\* raw_text[:500] + '...' if len(raw_text) > 500 else raw_text
Excerpt(raw) == IF Len(raw) > ExcerptLen THEN SubSeq(raw, 1, ExcerptLen) \o "..." ELSE raw

\* [seg['heading'] for seg in segments if seg['heading']]
RECURSIVE Topics(_)
Topics(segs) ==
    IF segs = <<>> THEN <<>>
    ELSE (IF Head(segs).heading \notin {None, Some("")} THEN <<Head(segs).heading[1]>> ELSE <<>>)
         \o Topics(Tail(segs))

\* The part of upload_notes after raw_text is known (lines 65-77).
Uploaded(raw) ==
    LET segs == clean_and_segment_text(raw)
    IN  [response |-> [status |-> 200,
                       body |-> [success |-> TRUE,
                                 raw_text |-> Excerpt(raw),
                                 segments |-> segs,
                                 topics |-> Topics(segs),
                                 word_count |-> Len(split_words(Chars(raw)))]],
         calls |-> <<[fn |-> "clean_and_segment_text", args |-> <<raw>>]>>]

\* upload_notes.  A request carries a file (its name, and the text that
\* extract_text_from_pdf finds in it, None when the extraction raises) or a
\* JSON body that may hold 'text'.
upload_notes(req) ==
    IF req.file # None
    THEN LET file == req.file[1]
         IN  IF file.filename = "" THEN Error(400, "No file selected")
             ELSE IF ~EndsWith(file.filename, ".pdf")
                  THEN Error(400, "Only PDF files are supported")
                  ELSE IF file.pdf_text = None
                       THEN Error(500, "No text could be extracted from PDF. The PDF might be image-based or corrupted.")
                       ELSE Uploaded(file.pdf_text[1])
    ELSE IF req.text # None THEN Uploaded(req.text[1])
         ELSE Error(400, "No file or text provided")

EmptyPreferences == [question_type |-> None, num_questions |-> None]

\* str(e) of the exception that left generate_quiz
ErrorMessage(exception) ==
    IF exception = "TypeError" THEN "'NoneType' object is not iterable" ELSE exception

\* lines 113-122 and 213-220: generate, save, answer with the quiz and its id.
GenerateAndSave(txt, segs, prefs, mcq_resp, saq_resp, quiz_id, file) ==
    LET r == generate_quiz(txt, segs, prefs, mcq_resp, saq_resp)
        call == [fn |-> "generate_quiz", args |-> <<txt, segs, prefs>>]
    IN  IF r.raised # ""
        THEN [response |-> [status |-> 500, body |-> [error |-> ErrorMessage(r.raised)]],
              calls |-> <<call>>,
              file |-> file]
        ELSE [response |-> [status |-> 200,
                            body |-> [success |-> TRUE,
                                      quiz |-> ("quiz_id" :> quiz_id) @@ r.quiz]],
              calls |-> <<call>>,
              file |-> save_quiz(file, quiz_id, r.quiz, prefs)]

\* if not text and not segments
NoContent(req) == Get(req.text, "") = "" /\ Get(req.segments, <<>>) = <<>>

generate_quiz_endpoint(req, mcq_resp, saq_resp, quiz_id, file) ==
    IF NoContent(req)
    THEN Error(400, "No content provided") @@ [file |-> file]
    ELSE GenerateAndSave(Get(req.text, ""), Get(req.segments, <<>>),
                         Get(req.preferences, EmptyPreferences),
                         mcq_resp, saq_resp, quiz_id, file)

\* The record regenerate_quiz works from: None when the request is turned
\* down (no quiz_id: 400, no such quiz: 404).
original_quiz(req, file) ==
    IF req.quiz_id \in {None, Some("")} THEN None ELSE get_by_id(file, req.quiz_id[1])

regenerate_quiz(req, mcq_resp, saq_resp, new_quiz_id, file) ==
    IF req.quiz_id \in {None, Some("")}
    THEN Error(400, "Quiz ID required") @@ [file |-> file]
    ELSE IF original_quiz(req, file) = None
         THEN Error(404, "Quiz not found") @@ [file |-> file]
         ELSE LET original == original_quiz(req, file)[1]
              IN  GenerateAndSave(DictGet(original, "text", ""),
                                  DictGet(original, "segments", <<>>),
                                  DictGet(original, "preferences", EmptyPreferences),
                                  mcq_resp, saq_resp, new_quiz_id, file)

(***************************************************************************)
(* The requests: uploads with and without a file and a text, quiz requests *)
(* whose text, segments and preferences are each missing, empty or given   *)
(* (the preferences also with values outside the documented ones), and     *)
(* regenerate requests for every identifier, and for none.                 *)
(***************************************************************************)
NotesText == "1. Cells\nCells divide by mitosis."

UploadRequests ==
    {[endpoint |-> "/upload-notes", file |-> Some(f), text |-> None] :
        f \in {[filename |-> "", pdf_text |-> None],
               [filename |-> "notes.txt", pdf_text |-> None],
               [filename |-> "notes.pdf", pdf_text |-> None],
               [filename |-> "notes.pdf", pdf_text |-> Some(NotesText)]}}
    \cup {[endpoint |-> "/upload-notes", file |-> None, text |-> t] :
            t \in {None, Some(""), Some(NotesText)}}

ApiPreferences ==
    {[question_type |-> Some("mcq"), num_questions |-> Some(1)],
     [question_type |-> Some("mixed"), num_questions |-> Some(2)],
     [question_type |-> Some("essay"), num_questions |-> Some(2)],
     [question_type |-> Some("mcq"), num_questions |-> Some(0)],
     [question_type |-> Some("saq"), num_questions |-> Some(-1)]}

GenerateRequests ==
    {[endpoint |-> "/generate-quiz", text |-> t, segments |-> s, preferences |-> p] :
        t \in {None, Some(""), Some(Sentence57 \o ".")},
        s \in {None, Some(Take(SampleSegments, 1))},
        p \in {None} \cup {Some(prefs) : prefs \in ApiPreferences}}

RegenerateRequests ==
    {[endpoint |-> "/regenerate", quiz_id |-> q] :
        q \in {None} \cup {Some(id) : id \in QuizIds(MaxRequests)}}

\* What the backend may answer to a request for n questions.
BackendAnswers(n, sample) == IF n > 0 THEN BackendResponses(sample) ELSE {NoResponse}

(***************************************************************************)
(* SpecApi: the application answers up to MaxRequests requests, one after  *)
(* the other, on a store that starts empty.                                *)
(***************************************************************************)
InitApi ==
    /\ pc = "serving"
    /\ storage_file = WrittenFile(<<>>)
    /\ served = <<>>
    /\ procs = <<>>
    /\ raised = ""
    /\ IdleSeg
    /\ IdleQuiz
    /\ IdleEval

Served(req, r) == Append(served, [request |-> req, response |-> r.response, calls |-> r.calls])

UploadNotes ==
    /\ pc = "serving"
    /\ Len(served) < MaxRequests
    /\ \E req \in UploadRequests : served' = Served(req, upload_notes(req))
    /\ UNCHANGED <<pc, raw_text, seg_out, text, segments, preferences, quiz, calls,
                   user_answer, keywords, eval_response, evaluation, raised,
                   storage_file, procs>>

GenerateQuizEndpoint ==
    /\ pc = "serving"
    /\ Len(served) < MaxRequests
    /\ \E req \in GenerateRequests,
          quiz_id \in QuizIds(MaxRequests) \ StoredIds(storage_file) :
          LET prefs == Get(req.preferences, EmptyPreferences)
          IN  \E mcq_resp \in BackendAnswers(IF NoContent(req) THEN 0 ELSE num_mcq(prefs),
                                             BackendMcq),
                 saq_resp \in BackendAnswers(IF NoContent(req) THEN 0 ELSE num_saq(prefs),
                                             BackendSaq) :
                 LET r == generate_quiz_endpoint(req, mcq_resp, saq_resp, quiz_id, storage_file)
                 IN  /\ served' = Served(req, r)
                     /\ storage_file' = r.file
    /\ UNCHANGED <<pc, raw_text, seg_out, text, segments, preferences, quiz, calls,
                   user_answer, keywords, eval_response, evaluation, raised, procs>>

RegenerateQuiz ==
    /\ pc = "serving"
    /\ Len(served) < MaxRequests
    /\ \E req \in RegenerateRequests,
          new_quiz_id \in QuizIds(MaxRequests) \ StoredIds(storage_file) :
          LET original == original_quiz(req, storage_file)
              prefs == IF original = None THEN EmptyPreferences
                       ELSE DictGet(original[1], "preferences", EmptyPreferences)
          IN  \E mcq_resp \in BackendAnswers(IF original = None THEN 0 ELSE num_mcq(prefs),
                                             BackendMcq),
                 saq_resp \in BackendAnswers(IF original = None THEN 0 ELSE num_saq(prefs),
                                             BackendSaq) :
                 LET r == regenerate_quiz(req, mcq_resp, saq_resp, new_quiz_id, storage_file)
                 IN  /\ served' = Served(req, r)
                     /\ storage_file' = r.file
    /\ UNCHANGED <<pc, raw_text, seg_out, text, segments, preferences, quiz, calls,
                   user_answer, keywords, eval_response, evaluation, raised, procs>>

NextApi == UploadNotes \/ GenerateQuizEndpoint \/ RegenerateQuiz

SpecApi == InitApi /\ [][NextApi]_vars

(***************************************************************************)
(* SpecStore: MaxProcs quiz-generation requests handled concurrently (the  *)
(* server runs each request in a thread of its own) on one QuizHistory.    *)
(* save_quiz is not atomic: it reads the file (line 54), builds the record *)
(* on its own copy of the data (57-68), opens the file for writing, which  *)
(* empties it (38), and writes the copy (39) before it returns the id      *)
(* (71).  The bytes of a writer land at the start of the file: over an     *)
(* empty file they give the writer's data; over what another writer has    *)
(* put there since, they give the writer's data or, when that is shorter   *)
(* in bytes, a file that does not parse.  Once every request has been      *)
(* answered, each client looks its quiz up and lists the history.          *)
(***************************************************************************)
Procs == 1..MaxProcs

\* The request of process p: a text with one qualifying sentence, p questions.
ProcRequest(p) ==
    [endpoint |-> "/generate-quiz",
     text |-> Some(Sentence57 \o "."),
     segments |-> None,
     preferences |-> Some([question_type |-> Some("mcq"), num_questions |-> Some(p)])]

InitStore ==
    /\ pc = "serving"
    /\ storage_file = WrittenFile(<<>>)
    /\ served = <<>>
    /\ procs = [p \in Procs |-> [pc |-> "request", quiz_data |-> None, data |-> <<>>,
                                 quiz_id |-> None, found |-> None, listed |-> None]]
    /\ raised = ""
    /\ IdleSeg
    /\ IdleQuiz
    /\ IdleEval

\* The identifiers uuid4 has given out.
IssuedIds == {procs[p].quiz_id[1] : p \in {q \in Procs : procs[q].quiz_id # None}}

\* Every request has been answered.
AllAnswered == \A p \in Procs : procs[p].pc \in {"returned", "failed"}

\* generate_quiz_endpoint up to the first statement of save_quiz:
\* quiz_data = generate_quiz(...) and data = self._load_data().  A quiz
\* generation that raises ends the request with status 500.
LoadForSave(p) ==
    /\ procs[p].pc = "request"
    /\ \E mcq_resp \in BackendAnswers(p, BackendMcq) :
          LET req == ProcRequest(p)
              r == generate_quiz(req.text[1], <<>>, req.preferences[1], mcq_resp, NoResponse)
          IN  procs' = [procs EXCEPT ![p] =
                           IF r.raised # ""
                           THEN [@ EXCEPT !.pc = "failed"]
                           ELSE [@ EXCEPT !.pc = "loaded",
                                          !.quiz_data = Some(r.quiz),
                                          !.data = load_data(storage_file)]]
    /\ UNCHANGED <<pc, raw_text, seg_out, text, segments, preferences, quiz, calls,
                   user_answer, keywords, eval_response, evaluation, raised,
                   storage_file, served>>

\* quiz_id = str(uuid.uuid4()); data['quizzes'].append(quiz_record);
\* open(self.storage_file, 'w')
OpenForWrite(p) ==
    /\ procs[p].pc = "loaded"
    /\ \E quiz_id \in QuizIds(MaxProcs) \ IssuedIds :
          procs' = [procs EXCEPT ![p] =
                       [@ EXCEPT !.pc = "opened",
                                 !.quiz_id = Some(quiz_id),
                                 !.data = Append(@, QuizRecord(quiz_id, procs[p].quiz_data[1],
                                                               ProcRequest(p).preferences[1]))]]
    /\ storage_file' = EmptiedFile
    /\ UNCHANGED <<pc, raw_text, seg_out, text, segments, preferences, quiz, calls,
                   user_answer, keywords, eval_response, evaluation, raised, served>>

\* json.dump(data, f, indent=2), the file is closed, return quiz_id
DumpAndReturn(p) ==
    /\ procs[p].pc = "opened"
    /\ storage_file' \in {WrittenFile(procs[p].data)}
                         \cup (IF storage_file.empty THEN {} ELSE {GarbledFile})
    /\ procs' = [procs EXCEPT ![p].pc = "returned"]
    /\ UNCHANGED <<pc, raw_text, seg_out, text, segments, preferences, quiz, calls,
                   user_answer, keywords, eval_response, evaluation, raised, served>>

\* quiz_history.get_by_id(quiz_id) with the id the request was answered with
GetById(p) ==
    /\ AllAnswered
    /\ procs[p].pc = "returned"
    /\ procs[p].found = None
    /\ procs' = [procs EXCEPT ![p].found = Some(get_by_id(storage_file, procs[p].quiz_id[1]))]
    /\ UNCHANGED <<pc, raw_text, seg_out, text, segments, preferences, quiz, calls,
                   user_answer, keywords, eval_response, evaluation, raised,
                   storage_file, served>>

\* quiz_history.get_all()
GetAll(p) ==
    /\ AllAnswered
    /\ procs[p].pc = "returned"
    /\ procs[p].listed = None
    /\ procs' = [procs EXCEPT ![p].listed = Some(get_all(storage_file))]
    /\ UNCHANGED <<pc, raw_text, seg_out, text, segments, preferences, quiz, calls,
                   user_answer, keywords, eval_response, evaluation, raised,
                   storage_file, served>>

NextStore ==
    \E p \in Procs :
        \/ LoadForSave(p)
        \/ OpenForWrite(p)
        \/ DumpAndReturn(p)
        \/ GetById(p)
        \/ GetAll(p)

SpecStore == InitStore /\ [][NextStore]_vars

(***************************************************************************)
(* Claims about the segmenter.                                             *)
(***************************************************************************)
\* The non-blank lines of the cleaned text, each stripped, in order.
RECURSIVE NonBlank(_)
NonBlank(lines) ==
    IF lines = <<>> THEN <<>>
    ELSE LET l == strip(Head(lines))
         IN  (IF l = <<>> THEN <<>> ELSE <<l>>) \o NonBlank(Tail(lines))

CleanedText == clean_text(Chars(raw_text))
CleanedLines == NonBlank(split_lines(CleanedText))

RECURSIVE NonHeading(_)
NonHeading(lines) ==
    IF lines = <<>> THEN <<>>
    ELSE (IF detect_heading(Head(lines)) THEN <<>> ELSE <<Head(lines)>>)
         \o NonHeading(Tail(lines))

NoHeadingDetected == \A i \in 1..Len(CleanedLines) : ~detect_heading(CleanedLines[i])

\* The contents of the segments, joined with newlines.
RECURSIVE JoinContents(_)
JoinContents(segs) ==
    IF segs = <<>> THEN ""
    ELSE IF Len(segs) = 1 THEN segs[1].content
         ELSE segs[1].content \o "\n" \o JoinContents(Tail(segs))

\* C1: when no line of the cleaned text is a heading, the segmenter returns
\* exactly one segment, headed "Main Content", with no section number and
\* the entire cleaned text as its content.
C1_NoHeadingGivesMainContent ==
    (pc = "done" /\ NoHeadingDetected) =>
        seg_out = <<[heading |-> Some("Main Content"),
                     content |-> Str(CleanedText),
                     section_number |-> None]>>

\* C2: when some line of the cleaned text is a heading, the contents of the
\* returned segments, joined with newlines, are exactly the non-heading,
\* non-blank lines of the cleaned text, in document order, each once.
C2_ContentsAreTheNonHeadingLines ==
    (pc = "done" /\ ~NoHeadingDetected) =>
        JoinContents(seg_out) = Str(join_lines(NonHeading(CleanedLines)))

(***************************************************************************)
(* Claims about generate_quiz.                                             *)
(***************************************************************************)
\* The response is a JSON object without a 'questions' key.
MissingQuestionsKey(resp) == resp.kind = "object" /\ resp.questions = None

\* The calls that generate_quiz made of the named function.
CallsOf(fn) == {i \in 1..Len(calls) : calls[i].fn = fn}

\* C3: a response that parses as a JSON object but has no 'questions' key is
\* a backend failure: generate_mcqs (generate_saqs) returns what
\* generate_fallback_mcqs (generate_fallback_saqs) returns, not an empty list.
C3_MissingKeyFallsBack ==
    (pc = "done" /\ raised = "" /\ Len(calls) = 1 /\ MissingQuestionsKey(calls[1].response)) =>
        quiz.questions =
            IF calls[1].fn = "generate_mcqs"
            THEN generate_fallback_mcqs(text, calls[1].num_questions, segments)
            ELSE generate_fallback_saqs(text, calls[1].num_questions, segments)

\* C4: with question_type mixed, whatever the backend answers to the MCQ and
\* to the SAQ request, generate_quiz returns a quiz without raising, and
\* each question type with a non-zero count has had its generation step run.
C4_MixedNeverRaises ==
    (pc = "done" /\ question_type_of(preferences) = "mixed") =>
        /\ raised = ""
        /\ num_mcq(preferences) > 0 => CallsOf("generate_mcqs") # {}
        /\ num_saq(preferences) > 0 => CallsOf("generate_saqs") # {}

\* The counts the specification gives for the preferences.
SpecCounts ==
    LET n == num_questions_of(preferences)
        t == question_type_of(preferences)
    IN  IF t = "mcq" THEN <<n, 0>>
        ELSE IF t = "saq" THEN <<0, n>>
             ELSE <<n \div 2, n - (n \div 2)>>

\* The questions one step contributes for its count and its response.
StepQuestions(fn, count, resp) ==
    IF count <= 0 THEN <<>>
    ELSE IF ~BackendFailed(resp) THEN GetQuestions(resp).items
         ELSE IF fn = "generate_mcqs"
              THEN generate_fallback_mcqs(text, count, segments)
              ELSE generate_fallback_saqs(text, count, segments)

ResponseOf(fn) ==
    IF CallsOf(fn) = {} THEN NoResponse ELSE calls[CHOOSE i \in CallsOf(fn) : TRUE].response

\* C5: (num_mcq, num_saq) is (n, 0) for mcq, (0, n) for saq and
\* (floor(n/2), n - floor(n/2)) for mixed; the two add up to n, n = 7 mixed
\* gives (3, 4), and these are the counts each question type is asked for
\* and its fallback is given, whatever the backend answers.
C5_QuestionCounts ==
    pc = "done" =>
        /\ SpecCounts[1] + SpecCounts[2] = num_questions_of(preferences)
        /\ (question_type_of(preferences) = "mixed" /\ num_questions_of(preferences) = 7)
               => SpecCounts = <<3, 4>>
        /\ \A i \in CallsOf("generate_mcqs") : calls[i].num_questions = SpecCounts[1]
        /\ \A i \in CallsOf("generate_saqs") : calls[i].num_questions = SpecCounts[2]
        /\ SpecCounts[1] > 0 => CallsOf("generate_mcqs") # {}
        /\ (SpecCounts[2] > 0 /\ raised = "") => CallsOf("generate_saqs") # {}
        /\ raised = "" =>
               quiz.questions =
                   StepQuestions("generate_mcqs", SpecCounts[1], ResponseOf("generate_mcqs"))
                   \o StepQuestions("generate_saqs", SpecCounts[2], ResponseOf("generate_saqs"))

C5_Witness ==
    /\ pc = "done"
    /\ preferences = [question_type |-> Some("mixed"), num_questions |-> Some(7)]
    /\ Len(calls) = 2
    /\ calls[1].fn = "generate_mcqs" /\ calls[1].num_questions = 3 /\ calls[1].fallback
    /\ calls[2].fn = "generate_saqs" /\ calls[2].num_questions = 4 /\ ~calls[2].fallback
    /\ raised = ""

\* The backend failed for a quiz of MCQs only.
McqBackendFailure ==
    /\ pc = "done"
    /\ question_type_of(preferences) = "mcq"
    /\ Len(calls) = 1
    /\ BackendFailed(calls[1].response)

\* C6: when the backend fails for question_type mcq and num_questions N,
\* generate_quiz returns at most N questions, each an MCQ with exactly 4
\* options and correct_answer 0, and total_questions is their number.
C6_FallbackMcqShape ==
    McqBackendFailure =>
        /\ raised = ""
        /\ Len(quiz.questions) <= num_questions_of(preferences)
        /\ quiz.total_questions = Len(quiz.questions)
        /\ \A i \in 1..Len(quiz.questions) :
               /\ quiz.questions[i].type = "mcq"
               /\ Len(quiz.questions[i].options) = 4
               /\ quiz.questions[i].correct_answer = 0

C6_Witness ==
    /\ McqBackendFailure
    /\ num_questions_of(preferences) = 1
    /\ Len(important_sentences(split_sentences(Chars(text)))) = 2
    /\ raised = ""
    /\ Len(quiz.questions) = 1

\* The sentences of the text whose trimmed length is strictly between 40 and 200.
QualifyingSentences == Len(important_sentences(split_sentences(Chars(text))))

\* C7: on the fallback path the number of questions falls short of N only
\* when fewer than N qualifying sentences exist: with at least N of them
\* generate_fallback_mcqs returns exactly N questions.
C7_ShortOnlyWhenExhausted ==
    McqBackendFailure =>
        LET n == num_questions_of(preferences)
        IN  /\ QualifyingSentences >= n => Len(quiz.questions) = n
            /\ Len(quiz.questions) < n => QualifyingSentences < n

(***************************************************************************)
(* Claims about evaluate_saq_answer.                                       *)
(***************************************************************************)
\* a / b rounded to the nearest integer (a >= 0, b > 0).
RoundDiv(a, b) == (2 * a + b) \div (2 * b)

\* C8: keyword_score_percentage is round(100 * |keywords_found| / |keywords|),
\* rounded to the nearest integer, and 0 when the keyword list is empty.
C8_PercentageIsRounded ==
    (pc = "done" /\ raised = "") =>
        evaluation.keyword_score_percentage =
            IF keywords = <<>> THEN 0
            ELSE RoundDiv(100 * Len(evaluation.keywords_found), Len(keywords))

\* C9: when the backend fails, overall_score (the synthesized
\* score_out_of_10) is round(keyword_score_percentage / 10), computed from
\* the integer percentage.
C9_FallbackScoreIsRoundedPercentage ==
    (pc = "done" /\ raised = "" /\ BackendFailed(eval_response)) =>
        evaluation.overall_score = RoundDiv(evaluation.keyword_score_percentage, 10)

\* C10: with an empty keyword list evaluate_saq_answer never raises, whether
\* the backend succeeds or fails, and returns keyword_score_percentage 0
\* with empty keywords_found and keywords_missing.
C10_EmptyKeywords ==
    (pc = "done" /\ keywords = <<>>) =>
        /\ raised = ""
        /\ evaluation.keyword_score_percentage = 0
        /\ evaluation.keywords_found = <<>>
        /\ evaluation.keywords_missing = <<>>

C10_Witness ==
    /\ pc = "done"
    /\ keywords = <<>>
    /\ user_answer # ""
    /\ BackendFailed(eval_response)
    /\ raised = ""
    /\ evaluation.keyword_score_percentage = 0

\* The qualitative result the code holds in ai_evaluation: the backend's
\* object, or on a failure the dictionary synthesized from the keyword count.
QualitativeResult ==
    IF ~BackendFailed(eval_response) THEN eval_response.object
    ELSE LET f == Len(evaluation.keywords_found)
             t == Len(keywords)
         IN  [score_out_of_10 |-> Some(IF t > 0 THEN (10 * f) \div t ELSE 0),
              feedback |-> Some("Basic keyword matching performed."),
              strengths |-> Some(IF f > 0
                                 THEN <<"Included: " \o join_comma(evaluation.keywords_found)>>
                                 ELSE <<>>),
              improvements |-> Some(IF f < t
                                    THEN <<"Missing: " \o join_comma(evaluation.keywords_missing)>>
                                    ELSE <<>>),
              demonstrates_understanding |-> Some(t > 0 /\ 5 * f > 3 * t)]

\* The value under a key of the qualitative result, or the default of the merge.
Taken(opt, default) == IF opt = None THEN default ELSE opt[1]

\* C11: keywords_found, keywords_missing and keyword_score_percentage are
\* the same for every backend outcome (any response, or a failure), so they
\* depend only on user_answer and keywords; overall_score, feedback and
\* demonstrates_understanding are taken from the qualitative result, which
\* is the backend's object or, on a failure, the synthesized fallback.
C11_KeywordPartIgnoresBackend ==
    (pc = "done" /\ raised = "") =>
        /\ \A resp \in EvalResponses :
               LET other == evaluate_saq_answer(user_answer, keywords, resp)
               IN  /\ other.raised = ""
                   /\ other.evaluation.keywords_found = evaluation.keywords_found
                   /\ other.evaluation.keywords_missing = evaluation.keywords_missing
                   /\ other.evaluation.keyword_score_percentage
                          = evaluation.keyword_score_percentage
        /\ evaluation.ai_evaluation = QualitativeResult
        /\ evaluation.overall_score = Taken(QualitativeResult.score_out_of_10, 0)
        /\ evaluation.feedback = Taken(QualitativeResult.feedback, "")
        /\ evaluation.demonstrates_understanding
               = Taken(QualitativeResult.demonstrates_understanding, FALSE)

C11_Witness ==
    /\ pc = "done"
    /\ raised = ""
    /\ eval_response = [kind |-> "object", object |-> FullEvaluation]
    /\ evaluation.keywords_found = <<"cell", "Energy">>
    /\ evaluation.keywords_missing = <<"mitosis">>
    /\ evaluation.keyword_score_percentage = 66
    /\ evaluation.overall_score = 8
    /\ evaluation.demonstrates_understanding

(***************************************************************************)
(* More claims about the segmenter.                                        *)
(***************************************************************************)
\* str is digits, optionally followed by groups of a dot and digits.
DottedNumeral(str) ==
    LET cs == Chars(str)
    IN  /\ cs # <<>>
        /\ cs[1] \in Digit /\ cs[Len(cs)] \in Digit
        /\ \A k \in 1..Len(cs) : cs[k] \in Digit \cup {"."}
        /\ \A k \in 1..(Len(cs) - 1) : ~(cs[k] = "." /\ cs[k + 1] = ".")

IsPrefix(p, str) == Len(p) <= Len(str) /\ SubSeq(str, 1, Len(p)) = p

\* The heading starts with a dotted numeral, that is, with a digit.
StartsWithNumeral(heading) ==
    heading # None /\ Len(heading[1]) > 0 /\ SubSeq(heading[1], 1, 1) \in Digit

\* The numeral p at the start of str cannot be extended: what follows is
\* neither a digit nor a dot and a digit.
LongestNumeral(p, str) ==
    LET rest == Chars(SubSeq(str, Len(p) + 1, Len(str)))
    IN  /\ rest # <<>> => rest[1] \notin Digit
        /\ Len(rest) >= 2 => ~(rest[1] = "." /\ rest[2] \in Digit)

\* C13: the section_number of every returned segment is None or a prefix of
\* the segment's heading; it is present exactly when the heading starts with
\* a dotted numeral, and it is then that numeral; the "Main Content" segment
\* has section_number None.
C13_SectionNumberIsHeadingPrefix ==
    pc = "done" =>
        \A i \in 1..Len(seg_out) :
            LET seg == seg_out[i]
            IN  /\ (seg.section_number # None) <=> StartsWithNumeral(seg.heading)
                /\ seg.section_number # None =>
                       /\ IsPrefix(seg.section_number[1], seg.heading[1])
                       /\ DottedNumeral(seg.section_number[1])
                       /\ LongestNumeral(seg.section_number[1], seg.heading[1])
                /\ seg.heading = Some("Main Content") => seg.section_number = None

C13_Witness ==
    /\ pc = "done"
    /\ raw_text = "1.2 Overview of cells\nthe cat sat on the mat."
    /\ seg_out = <<[heading |-> Some("1.2 Overview of cells"),
                    content |-> "the cat sat on the mat.",
                    section_number |-> Some("1.2")]>>

\* The lines of str that hold only a number (and blanks), first and last
\* line apart.
InteriorNumberLines(cs) ==
    LET lines == split_lines(cs)
    IN  {i \in 2..(Len(lines) - 1) :
            LET l == strip(lines[i])
            IN  l # <<>> /\ \A k \in 1..Len(l) : l[k] \in Digit}

\* C14: clean_text is idempotent, clean_text(clean_text(t)) = clean_text(t),
\* and its output has no interior line that consists solely of a number.
C14_CleanTextIdempotent ==
    pc = "done" =>
        /\ clean_text(CleanedText) = CleanedText
        /\ InteriorNumberLines(CleanedText) = {}

\* The stripped non-blank lines of a segment's content.
ContentLines(seg) == NonBlank(split_lines(Chars(seg.content)))

\* The line is the heading of a returned segment or a line of its content.
Kept(line) ==
    \E i \in 1..Len(seg_out) :
        \/ seg_out[i].heading = Some(Str(line))
        \/ \E k \in 1..Len(ContentLines(seg_out[i])) : ContentLines(seg_out[i])[k] = line

\* C15: segmentation never loses text: every non-blank line of the cleaned
\* text is the heading of a returned segment or a line of a returned
\* segment's content, also a heading that another heading follows or that
\* ends the text.
C15_NoLineLost ==
    pc = "done" => \A i \in 1..Len(CleanedLines) : Kept(CleanedLines[i])

(***************************************************************************)
(* Claims about the request boundary and the store.                        *)
(***************************************************************************)
\* The text an upload carries: what the file holds, or the body's 'text'.
UploadedText(req) == IF req.file # None THEN req.file[1].pdf_text ELSE req.text

\* A question_type outside mcq / saq / mixed, or a num_questions that is not
\* a positive integer.
InvalidPreferences(prefs) ==
    \/ prefs.question_type # None /\ prefs.question_type[1] \notin QuestionTypes
    \/ prefs.num_questions # None /\ prefs.num_questions[1] <= 0

\* The request is an input error: its text is empty or missing, or its
\* preferences hold an invalid value.
InputError(req) ==
    \/ req.endpoint = "/upload-notes" /\ UploadedText(req) \in {None, Some("")}
    \/ /\ req.endpoint = "/generate-quiz"
       /\ \/ req.text \in {None, Some("")}
          \/ req.preferences # None /\ InvalidPreferences(req.preferences[1])

\* C12: an upload or quiz-generation request whose text is empty or missing,
\* and a quiz-generation request whose preferences hold an invalid value, is
\* answered with an error, and neither clean_and_segment_text nor
\* generate_quiz is called for it.
C12_InputErrorsAreReported ==
    \A i \in 1..Len(served) :
        InputError(served[i].request) =>
            /\ served[i].response.status >= 400
            /\ served[i].calls = <<>>

\* Request j asks to regenerate the quiz that request i generated and saved.
RegeneratesQuizOf(j, i) ==
    /\ i < j
    /\ served[i].request.endpoint = "/generate-quiz"
    /\ served[i].response.status = 200
    /\ served[j].request.endpoint = "/regenerate"
    /\ served[j].request.quiz_id = Some(served[i].response.body.quiz.quiz_id)

\* C16: a /regenerate request for a quiz that the generate-quiz endpoint
\* saved with text T, segments S and preferences P calls generate_quiz with
\* exactly T, S and P.
C16_RegenerateUsesOriginalParameters ==
    \A i, j \in 1..Len(served) :
        RegeneratesQuizOf(j, i) =>
            served[j].calls =
                <<[fn |-> "generate_quiz",
                   args |-> <<Get(served[i].request.text, ""),
                              Get(served[i].request.segments, <<>>),
                              Get(served[i].request.preferences, EmptyPreferences)>>]>>

\* C17: under every interleaving of concurrent quiz-generation requests on
\* one store, once all save_quiz calls have returned, get_by_id finds a
\* record for each returned id, and get_all holds a record for each of them,
\* one per call.
C17_NoSaveLost ==
    \A p \in Procs :
        /\ procs[p].found # None => procs[p].found[1] # None
        /\ procs[p].listed # None =>
               LET listed == procs[p].listed[1]
                   returned == {q \in Procs : procs[q].pc = "returned"}
               IN  /\ \A q \in returned :
                          \E i \in 1..Len(listed) : listed[i].id = procs[q].quiz_id[1]
                   /\ Len(listed) = Cardinality(returned)
====
